---- MODULE Spec2Model ----
(***************************************************************************)
(* State-machine model of the wallet bot in src/bot.py: the deposit ledger *)
(* (user_balances / user_balances.json), the one-time notification gate    *)
(* (wallet_sent_to_admin / wallet_notifications.txt) and the handlers that *)
(* touch them (show_wallet, monitor_deposits, the two sell paths), and of  *)
(* the key derivation (derive_seed_from_mnemonic_and_id), which has a      *)
(* specification of its own, SpecDerive.                                   *)
(*                                                                         *)
(* Handlers are asyncio coroutines: a handler runs atomically from one     *)
(* suspending await to the next, so every action below is one such         *)
(* segment.  `await get_sol_price_usd()` never suspends (its body holds no *)
(* await) and is therefore part of the segment around it.                  *)
(*                                                                         *)
(* Balances are amounts in a smallest unit 0..MaxBal; the lamports -> SOL  *)
(* division of check_wallet_balance is monotone, so order and equality of  *)
(* amounts are those of the code's floats.                                 *)
(***************************************************************************)
EXTENDS Integers, FiniteSets, Sequences, TLC

\* ---- bounds of the model ----
\* Largest balance amount, and the count at which the message counters stop.
MaxBal == 2
MaxMsgs == 1

\* Longest master secret and largest telegram id of the derivation checks.
MaxLen == 2
MaxId == 11

\* One telegram id: handlers of different users share nothing but the
\* whole-map write of save_balances.  Two invocations can be in flight at
\* once, which is what the concurrency properties speak of.
Users == {1}
Tasks == {1, 2}
Amounts == 0..MaxBal

\* A user with no entry in a ledger map.
Absent == -1

Max(a, b) == IF a >= b THEN a ELSE b

\* Counters of delivered admin messages stop counting at MaxMsgs.
Inc(n) == IF n < MaxMsgs THEN n + 1 ELSE n

VARIABLES
    running,               \* the process started and serves handlers
    MNEMONIC,              \* TRUE iff the master secret is non-empty
    GROUP_ID,              \* TRUE iff ADMIN_GROUP_ID is non-zero
    user_balances,         \* in-memory ledger: user -> amount or Absent
    balances_file,         \* user_balances.json: [kind, data]
    wallet_sent_to_admin,  \* in-memory gate set
    notif_file,            \* ids held by the lines of wallet_notifications.txt
    awaiting_custom_sell,  \* context.user_data["awaiting_custom_sell"] per user
    pc,                    \* per invocation: the await it is suspended at
    usr,                   \* per invocation: telegram_id
    current_balance,       \* per invocation: monitor_deposits' current_balance
    deposit_amount,        \* per invocation: monitor_deposits' deposit_amount
    balance,               \* per invocation: monitor_deposits' return value
    wallet_text,           \* per invocation: the text of show_wallet's reply
    gateSend,              \* history: outcome of this invocation's wallet send
    rpcFailed,             \* history: the invocation's balance query failed
    depositSend,           \* history: outcome of the deposit notification
    walletMsgs,            \* history: wallet-created messages per user
    sellMsgs,              \* history: sell-order messages delivered per user
    maxSeen,               \* history: max(initial, observed balances) per user
    derivation,            \* the derivation call of SpecDerive: arguments, msg
    reload,                \* the save and reload of SpecReload: map, file, map
    user_data,             \* context.user_data: pending input flows per user
    user_states,           \* users with a settings input pending
    reply,                 \* history: last answer of a menu handler per user
    addresses_file,        \* the lines of addresses.txt (walletgenerator.py)
    genPc,                 \* where each walletgenerator.py handler stands
    genSent                \* history: messages walletgenerator.py delivered

vars == << running, MNEMONIC, GROUP_ID, user_balances, balances_file,
           wallet_sent_to_admin, notif_file, awaiting_custom_sell,
           pc, usr, current_balance, deposit_amount, balance, wallet_text,
           gateSend, rpcFailed, depositSend,
           walletMsgs, sellMsgs, maxSeen, derivation, reload,
           user_data, user_states, reply, addresses_file, genPc, genSent >>

taskVars == << pc, usr, current_balance, deposit_amount, balance, wallet_text,
              gateSend,
              rpcFailed, depositSend >>

\* The state of the menu flows of bot.py and the state of walletgenerator.py.
menuVars == << user_data, user_states, reply >>

genVars == << addresses_file, genPc, genSent >>

\* What the wallet handlers of bot.py never touch.
idleVars == << derivation, reload, menuVars, genVars >>

EmptyLedger == [u \in Users |-> Absent]

\* get_user_balance / user_balances.get(id, {}).get("balance", 0)
get_user_balance(m, u) == IF m[u] = Absent THEN 0 ELSE m[u]

\* ---- key derivation ----
\* Text is a sequence of one-character strings.  Chars has a letter, the
\* separator, a digit and a whitespace character, the kinds of character the
\* construction of the hash input tells apart.
Chars == {"a", ":", "1", " "}

Mnemonics == UNION {[1..n -> Chars] : n \in 0..MaxLen}

TelegramIds == 0..MaxId

\* The value of the MNEMONIC environment variable where the model only
\* records that it is set.
MnemonicValue == <<"a">>

RECURSIVE LStrip(_)
LStrip(s) ==
    IF s = << >> THEN s
    ELSE IF Head(s) = " " THEN LStrip(Tail(s)) ELSE s

RECURSIVE RStrip(_)
RStrip(s) ==
    IF s = << >> THEN s
    ELSE IF s[Len(s)] = " " THEN RStrip(SubSeq(s, 1, Len(s) - 1)) ELSE s

\* str.strip()
Strip(s) == RStrip(LStrip(s))

Digits == <<"0", "1", "2", "3", "4", "5", "6", "7", "8", "9">>

\* str(telegram_id) of a non-negative int
RECURSIVE Decimal(_)
Decimal(n) ==
    IF n < 10 THEN << Digits[n + 1] >>
    ELSE Decimal(n \div 10) \o << Digits[(n % 10) + 1] >>

\* HashInput without the ":" between secret and id.
HashInput_noSeparator(mnemonic, telegram_id) ==
    Strip(mnemonic) \o Decimal(telegram_id)

\* Line 156: msg = mnemonic.strip() + ":" + str(telegram_id)
HashInput(mnemonic, telegram_id) ==
    Strip(mnemonic) \o <<":">> \o Decimal(telegram_id)

\* hashlib.sha256(msg).digest(): an injective tag of the message (SHA-256 is
\* taken to be collision free).
sha256(msg) == << "sha256", msg >>

derive_seed_from_mnemonic_and_id(mnemonic, telegram_id) ==
    sha256(HashInput(mnemonic, telegram_id))

\* Lines 169-182: the ed25519 key pair of the seed; the address is the
\* public key, the private key is seed || public key, both base58.
derive_keypair_and_address(mnemonic, telegram_id) ==
    LET seed32 == derive_seed_from_mnemonic_and_id(mnemonic, telegram_id)
    IN  [public_address |-> << "pubkey", seed32 >>,
         private_key_b58 |-> << "secret64", seed32 >>]

\* The derivation of walletgenerator.py without the strip().
wg_derive_seed_noStrip(mnemonic, telegram_id) ==
    sha256(mnemonic \o <<":">> \o Decimal(telegram_id))

\* walletgenerator.py line 49: the message its derivation hashes.
wg_derive_seed_from_mnemonic_and_id(mnemonic, telegram_id) ==
    sha256(Strip(mnemonic) \o <<":">> \o Decimal(telegram_id))

\* The 64-byte secret (seed and public key) in base58 and as a JSON array.
seed_to_64byte_secret_and_formats(seed32) ==
    [secret_64_b58 |-> <<"secret64", seed32>>,
     secret_64_json |-> <<"secret64json", seed32>>]

\* The address and every form of the secret derive_keypair_and_formats
\* returns.
derive_keypair_and_formats(mnemonic, telegram_id) ==
    LET seed32 == wg_derive_seed_from_mnemonic_and_id(mnemonic, telegram_id)
        secret == seed_to_64byte_secret_and_formats(seed32)
    IN  [pub |-> <<"pubkey", seed32>>,
         seed_hex |-> <<"seedhex", seed32>>,
         seed_b58 |-> <<"seedb58", seed32>>,
         secret_64_b58 |-> secret.secret_64_b58,
         secret_64_json |-> secret.secret_64_json]

\* No derivation call under way.
NoDerivation ==
    [mnemonic |-> << >>, telegram_id |-> 0, msg |-> << >>, done |-> FALSE,
     keys |-> "none", bot |-> << >>, gen |-> << >>]

\* ---- persistence of the ledger ----
FileAbsent == [kind |-> "absent", data |-> EmptyLedger]

FileCorrupt == [kind |-> "corrupt", data |-> EmptyLedger]

SaveOutcomes == {"ok", "open_failed", "write_failed"}

\* save_balances: open(..., "w") truncates, json.dump writes the whole map;
\* every exception is caught and printed.  A failed open leaves the file as
\* it was, a failed write leaves the truncated (unparseable) file.
save_balances(mem, file, outcome) ==
    CASE outcome = "ok" -> [kind |-> "ok", data |-> mem]
      [] outcome = "open_failed" -> file
      [] OTHER -> FileCorrupt

\* Startup load of user_balances.json: a missing file leaves the map empty.
LoadBalances(file) == IF file.kind = "ok" THEN file.data ELSE EmptyLedger

\* json.load raises on an unparseable file and only FileNotFoundError is
\* caught: the process does not start.
StartupOk(file) == file.kind # "corrupt"

\* Startup load of wallet_notifications.txt: every line that is all digits
\* is added as an int.  The file is held as the set of ids its lines spell;
\* telegram ids are positive integers, written as f"{telegram_id}\n", so
\* each written line reads back as the id it was written for.
LoadNotifications(file) == file

\* ---- user_balances.json ----
\* The ids of the ledgers that are saved and reloaded: one digit, two
\* digits, two digits that end on the first id.
LedgerIds == {1, 10, MaxId}

\* The value of a decimal digit.
DigitValue(c) == CHOOSE d \in 0..9 : Digits[d + 1] = c

\* ParseInt that reads the last digit only.
ParseInt_lastDigit(s) == DigitValue(s[Len(s)])

\* int(k) of a string of decimal digits.
RECURSIVE ParseInt(_)
ParseInt(s) ==
    IF Len(s) = 1 THEN DigitValue(s[1])
    ELSE 10 * ParseInt(SubSeq(s, 1, Len(s) - 1)) + DigitValue(s[Len(s)])

\* Line 62, json.dump(user_balances, f): an object whose keys are the ids
\* as strings (JSON has no integer keys) and whose values are the entries
\* with their numbers written out.  The file is the set of its members.
json_dump(mem) ==
    {[key |-> Decimal(k),
      balance |-> Decimal(mem[k]),
      last_checked_slot |-> Decimal(0)] : k \in DOMAIN mem}

\* Lines 53-55: json.load, then {int(k): v for k, v in data.items()}.
LoadLedger(text) ==
    [i \in {ParseInt(m.key) : m \in text} |->
        ParseInt((CHOOSE m \in text : ParseInt(m.key) = i).balance)]

\* No save under way.
NoReload == [stage |-> "none", mem |-> << >>, text |-> {}, loaded |-> << >>]

\* ---- the reply of show_wallet ----
\* No text built yet.
NoText ==
    [kind |-> "none", public_address |-> << >>, private_key_b58 |-> << >>,
     balance |-> 0]

\* Lines 249-254: the text of the outer except clause.
ErrorText ==
    [kind |-> "error", public_address |-> << >>, private_key_b58 |-> << >>,
     balance |-> 0]

\* Lines 220-248: the wallet overview with the address, the private key and
\* the balance it interpolates (the total in USD is usd_value below).
WalletText(u, bal) ==
    LET kp == derive_keypair_and_address(MnemonicValue, u)
    IN  [kind |-> "wallet",
         public_address |-> kp.public_address,
         private_key_b58 |-> kp.private_key_b58,
         balance |-> bal]

\* TextAfterQuery with the exception of a failed balance query reaching the
\* outer except clause of show_wallet.
TextAfterQuery_raises(u, bal, rpcOk) ==
    IF rpcOk THEN WalletText(u, bal) ELSE ErrorText

\* The text show_wallet builds when monitor_deposits returned bal without an
\* admin notification.  A failed balance query (rpcOk FALSE) does not show
\* here: check_wallet_balance caught the exception and returned 0.
TextAfterQuery(u, bal, rpcOk) == WalletText(u, bal)

\* get_sol_price_usd: the price of one amount unit, or 0 when the lookup
\* raised.  The lookup does not suspend and touches no state.
Prices == {0, 3, 10}

\* Line 221: the "Total Assets" figure of the wallet overview.
usd_value(bal, sol_price) == IF sol_price > 0 THEN bal * sol_price ELSE 0

\* ---- the menu flows ----
\* The keys handle_message tests, in the order it tests them (lines 621,
\* 680, 729, 758, 810, 858); awaiting_custom_sell is a variable of its own.
Flows == << "awaiting_dummy", "awaiting_withdraw", "awaiting_copy_trade",
           "awaiting_custom_buy", "awaiting_custom_sell",
           "awaiting_token_contract" >>

\* context.user_data of a user with no input flow pending.
NoFlows == [awaiting_dummy |-> FALSE, awaiting_withdraw |-> FALSE,
            awaiting_copy_trade |-> FALSE, awaiting_custom_buy |-> FALSE,
            awaiting_token_contract |-> FALSE]

\* No menu handler has answered the user yet.
NoReply == [flow |-> "none", kind |-> "none"]

Init ==
    /\ running = TRUE
    /\ MNEMONIC \in BOOLEAN
    /\ GROUP_ID \in BOOLEAN
    /\ user_balances = EmptyLedger
    /\ balances_file = FileAbsent
    /\ wallet_sent_to_admin = {}
    /\ notif_file = {}
    /\ awaiting_custom_sell = [u \in Users |-> FALSE]
    /\ pc = [t \in Tasks |-> "idle"]
    /\ usr = [t \in Tasks |-> 1]
    /\ current_balance = [t \in Tasks |-> 0]
    /\ deposit_amount = [t \in Tasks |-> 0]
    /\ balance = [t \in Tasks |-> 0]
    /\ wallet_text = [t \in Tasks |-> NoText]
    /\ gateSend = [t \in Tasks |-> "none"]
    /\ rpcFailed = [t \in Tasks |-> FALSE]
    /\ depositSend = [t \in Tasks |-> "none"]
    /\ walletMsgs = [u \in Users |-> 0]
    /\ sellMsgs = [u \in Users |-> 0]
    /\ maxSeen = [u \in Users |-> 0]
    /\ derivation = NoDerivation
    /\ reload = NoReload
    /\ user_data = [u \in Users |-> NoFlows]
    /\ user_states = {}
    /\ reply = [u \in Users |-> NoReply]
    /\ addresses_file = {}
    /\ genPc = [t \in Tasks |-> "idle"]
    /\ genSent = {}

\* The locals of an invocation that ended (or was killed).
ResetTask(t) ==
    /\ pc' = [pc EXCEPT ![t] = "idle"]
    /\ usr' = [usr EXCEPT ![t] = 1]
    /\ current_balance' = [current_balance EXCEPT ![t] = 0]
    /\ deposit_amount' = [deposit_amount EXCEPT ![t] = 0]
    /\ balance' = [balance EXCEPT ![t] = 0]
    /\ wallet_text' = [wallet_text EXCEPT ![t] = NoText]
    /\ gateSend' = [gateSend EXCEPT ![t] = "none"]
    /\ rpcFailed' = [rpcFailed EXCEPT ![t] = FALSE]
    /\ depositSend' = [depositSend EXCEPT ![t] = "none"]

\* ---- the environment ----
\* The process is stopped and started again: every running handler is gone,
\* the module-level loads run again.
Restart ==
    /\ running' = StartupOk(balances_file)
    /\ user_balances' = LoadBalances(balances_file)
    /\ wallet_sent_to_admin' =
          IF StartupOk(balances_file) THEN LoadNotifications(notif_file) ELSE {}
    /\ awaiting_custom_sell' = [u \in Users |-> FALSE]
    /\ pc' = [t \in Tasks |-> "idle"]
    /\ usr' = [t \in Tasks |-> 1]
    /\ current_balance' = [t \in Tasks |-> 0]
    /\ deposit_amount' = [t \in Tasks |-> 0]
    /\ balance' = [t \in Tasks |-> 0]
    /\ wallet_text' = [t \in Tasks |-> NoText]
    /\ gateSend' = [t \in Tasks |-> "none"]
    /\ rpcFailed' = [t \in Tasks |-> FALSE]
    /\ depositSend' = [t \in Tasks |-> "none"]
    /\ maxSeen' = [u \in Users |->
                      get_user_balance(LoadBalances(balances_file), u)]
    /\ UNCHANGED << MNEMONIC, GROUP_ID, idleVars, balances_file, notif_file,
                    walletMsgs, sellMsgs >>

\* ---- show_wallet ----
\* Lines 209-213: append the id to wallet_notifications.txt; an exception is
\* printed and the file stays as it was.
AppendNotification(file, u, appended) ==
    IF appended THEN file \cup {u} ELSE file

\* Entry up to the first suspending await: derive the wallet, test the gate.
ShowWalletStart(t, u) ==
    /\ running
    /\ pc[t] = "idle"
    /\ usr' = [usr EXCEPT ![t] = u]
    /\ pc' = [pc EXCEPT ![t] =
                 IF ~MNEMONIC THEN "sw_reply"
                 ELSE IF u \notin wallet_sent_to_admin /\ GROUP_ID
                      THEN "sw_send"
                      ELSE "md_balance"]
    /\ wallet_text' = [wallet_text EXCEPT ![t] =
                          IF ~MNEMONIC THEN ErrorText ELSE @]
    /\ UNCHANGED << running, MNEMONIC, GROUP_ID, idleVars, user_balances,
                    balances_file, wallet_sent_to_admin, notif_file,
                    awaiting_custom_sell, current_balance, deposit_amount,
                    balance, gateSend, walletMsgs, sellMsgs, maxSeen,
                    rpcFailed, depositSend >>

\* send_message of "New Wallet Generated" returned: the id joins the set and
\* a line is appended to the file; a failed append is printed and ignored.
ShowWalletSendOk(t) ==
    /\ pc[t] = "sw_send"
    /\ wallet_sent_to_admin' = wallet_sent_to_admin \cup {usr[t]}
    /\ \E appended \in BOOLEAN :
          notif_file' = AppendNotification(notif_file, usr[t], appended)
    /\ walletMsgs' = [walletMsgs EXCEPT ![usr[t]] = Inc(@)]
    /\ gateSend' = [gateSend EXCEPT ![t] = "ok"]
    /\ pc' = [pc EXCEPT ![t] = "md_balance"]
    /\ UNCHANGED << running, MNEMONIC, GROUP_ID, idleVars, user_balances,
                    balances_file, awaiting_custom_sell, usr, current_balance,
                    deposit_amount, balance, sellMsgs, maxSeen, rpcFailed,
                    depositSend, wallet_text >>

\* ShowWalletSendFail with the id recorded although the send raised (the
\* add placed ahead of the send).
ShowWalletSendFail_consumes(t) ==
    /\ pc[t] = "sw_send"
    /\ gateSend' = [gateSend EXCEPT ![t] = "failed"]
    /\ wallet_sent_to_admin' = wallet_sent_to_admin \cup {usr[t]}
    /\ pc' = [pc EXCEPT ![t] = "md_balance"]
    /\ UNCHANGED << running, MNEMONIC, GROUP_ID, idleVars, user_balances,
                    balances_file, notif_file, awaiting_custom_sell, usr,
                    current_balance, deposit_amount, balance, walletMsgs,
                    sellMsgs, maxSeen, rpcFailed, depositSend, wallet_text >>

\* send_message raised: the handler at line 214 prints and goes on.
ShowWalletSendFail(t) ==
    /\ pc[t] = "sw_send"
    /\ gateSend' = [gateSend EXCEPT ![t] = "failed"]
    /\ pc' = [pc EXCEPT ![t] = "md_balance"]
    /\ UNCHANGED << running, MNEMONIC, GROUP_ID, idleVars, user_balances,
                    balances_file, wallet_sent_to_admin, notif_file,
                    awaiting_custom_sell, usr, current_balance,
                    deposit_amount, balance, walletMsgs, sellMsgs, maxSeen,
                    rpcFailed, depositSend, wallet_text >>

\* ---- monitor_deposits ----
\* check_wallet_balance: the live balance the RPC returned, or 0 when the
\* query raised or returned no value.
check_wallet_balance(live, rpcOk) == IF rpcOk THEN live ELSE 0

\* Lines 111-112: a user seen for the first time gets an entry of 0.
EnsureEntry(m, u) == IF m[u] = Absent THEN [m EXCEPT ![u] = 0] ELSE m

\* IsDeposit with >= for >.
IsDeposit_orEqual(current, stored) == current >= stored

\* Line 117: the test that detects a deposit.
IsDeposit(current, stored) == current > stored

\* Reconcile that stores the observed balance without comparing.
Reconcile_overwrite(m, u, current) == [EnsureEntry(m, u) EXCEPT ![u] = current]

\* Reconcile that detects the deposit but leaves the stored value as it was.
Reconcile_noStore(m, u, current) == EnsureEntry(m, u)

\* Lines 111-119: the in-memory ledger after the comparison.
Reconcile(m, u, current) ==
    LET m0 == EnsureEntry(m, u)
    IN  IF IsDeposit(current, m0[u]) THEN [m0 EXCEPT ![u] = current] ELSE m0

\* The balance query returned: compare with the stored value, on an increase
\* update the map and save it, then either go on to the admin notification
\* (get_chat) or return to show_wallet, which goes on to reply_text.  A
\* query that failed brought no balance; save_balances runs on a deposit only.
MonitorReconcile(t) ==
    /\ pc[t] = "md_balance"
    /\ \E rpcOk \in BOOLEAN :
       \E live \in (IF rpcOk THEN Amounts ELSE {0}) :
          LET u == usr[t]
              current == check_wallet_balance(live, rpcOk)
              stored == EnsureEntry(user_balances, u)[u]
              dep == IsDeposit(current, stored)
              mem == Reconcile(user_balances, u, current)
          IN  /\ current_balance' = [current_balance EXCEPT ![t] = current]
              /\ user_balances' = mem
              /\ \E outcome \in (IF dep THEN SaveOutcomes ELSE {"ok"}) :
                    balances_file' =
                       IF dep THEN save_balances(mem, balances_file, outcome)
                       ELSE balances_file
              /\ deposit_amount' = [deposit_amount EXCEPT ![t] =
                                       IF dep THEN current - stored ELSE 0]
              /\ pc' = [pc EXCEPT ![t] =
                           IF dep /\ GROUP_ID THEN "md_getchat" ELSE "sw_reply"]
              /\ balance' = [balance EXCEPT ![t] =
                                IF dep THEN (IF GROUP_ID THEN @ ELSE current)
                                ELSE stored]
              /\ wallet_text' = [wallet_text EXCEPT ![t] =
                     IF dep /\ GROUP_ID THEN @
                     ELSE TextAfterQuery(u, IF dep THEN current ELSE stored,
                                         rpcOk)]
              /\ maxSeen' = [maxSeen EXCEPT ![u] = Max(@, current)]
              /\ rpcFailed' = [rpcFailed EXCEPT ![t] = ~rpcOk]
    /\ UNCHANGED << running, MNEMONIC, GROUP_ID, idleVars,
                    wallet_sent_to_admin, notif_file, awaiting_custom_sell,
                    usr, gateSend, walletMsgs, sellMsgs, depositSend >>

\* The process dies inside save_balances, after open(BALANCES_FILE, "w")
\* truncated the file and before json.dump wrote all of the map (the save of
\* invocation t, which observed a balance above the stored one).  Nothing of
\* the process is left; the file is the truncated one.
CrashInSave(t) ==
    /\ pc[t] = "md_balance"
    /\ \E live \in Amounts :
          IsDeposit(live, EnsureEntry(user_balances, usr[t])[usr[t]])
    /\ balances_file' = FileCorrupt
    /\ running' = FALSE
    /\ user_balances' = EmptyLedger
    /\ wallet_sent_to_admin' = {}
    /\ awaiting_custom_sell' = [u \in Users |-> FALSE]
    /\ pc' = [s \in Tasks |-> "idle"]
    /\ usr' = [s \in Tasks |-> 1]
    /\ current_balance' = [s \in Tasks |-> 0]
    /\ deposit_amount' = [s \in Tasks |-> 0]
    /\ balance' = [s \in Tasks |-> 0]
    /\ wallet_text' = [s \in Tasks |-> NoText]
    /\ gateSend' = [s \in Tasks |-> "none"]
    /\ rpcFailed' = [s \in Tasks |-> FALSE]
    /\ depositSend' = [s \in Tasks |-> "none"]
    /\ maxSeen' = [u \in Users |-> 0]
    /\ UNCHANGED << MNEMONIC, GROUP_ID, idleVars, notif_file, walletMsgs,
                    sellMsgs >>

\* ExceptReturn that gives the balance from before the update.
ExceptReturn_prior(t) ==
    get_user_balance(user_balances, usr[t]) - deposit_amount[t]

\* What the except clause of monitor_deposits returns (line 145).
ExceptReturn(t) == get_user_balance(user_balances, usr[t])

\* get_chat returned; the price lookup does not suspend; send_message is next.
MonitorGetChatOk(t) ==
    /\ pc[t] = "md_getchat"
    /\ pc' = [pc EXCEPT ![t] = "md_send"]
    /\ UNCHANGED << running, MNEMONIC, GROUP_ID, idleVars, user_balances,
                    balances_file, wallet_sent_to_admin, notif_file,
                    awaiting_custom_sell, usr, current_balance, deposit_amount,
                    balance, gateSend, walletMsgs, sellMsgs,
                    maxSeen, rpcFailed, depositSend, wallet_text >>

\* get_chat raised: the except clause returns the stored balance.
MonitorGetChatFail(t) ==
    /\ pc[t] = "md_getchat"
    /\ balance' = [balance EXCEPT ![t] = ExceptReturn(t)]
    /\ wallet_text' = [wallet_text EXCEPT ![t] =
                          WalletText(usr[t], ExceptReturn(t))]
    /\ depositSend' = [depositSend EXCEPT ![t] = "failed"]
    /\ pc' = [pc EXCEPT ![t] = "sw_reply"]
    /\ UNCHANGED << running, MNEMONIC, GROUP_ID, idleVars, user_balances,
                    balances_file, wallet_sent_to_admin, notif_file,
                    awaiting_custom_sell, usr, current_balance, deposit_amount,
                    gateSend, walletMsgs, sellMsgs, maxSeen, rpcFailed >>

\* The deposit notification was delivered: return current_balance.
MonitorSendOk(t) ==
    /\ pc[t] = "md_send"
    /\ balance' = [balance EXCEPT ![t] = current_balance[t]]
    /\ wallet_text' = [wallet_text EXCEPT ![t] =
                          WalletText(usr[t], current_balance[t])]
    /\ depositSend' = [depositSend EXCEPT ![t] = "ok"]
    /\ pc' = [pc EXCEPT ![t] = "sw_reply"]
    /\ UNCHANGED << running, MNEMONIC, GROUP_ID, idleVars, user_balances,
                    balances_file, wallet_sent_to_admin, notif_file,
                    awaiting_custom_sell, usr, current_balance, deposit_amount,
                    gateSend, walletMsgs, sellMsgs, maxSeen, rpcFailed >>

\* The deposit notification raised: the except clause returns the stored
\* balance.
MonitorSendFail(t) ==
    /\ pc[t] = "md_send"
    /\ balance' = [balance EXCEPT ![t] = ExceptReturn(t)]
    /\ wallet_text' = [wallet_text EXCEPT ![t] =
                          WalletText(usr[t], ExceptReturn(t))]
    /\ depositSend' = [depositSend EXCEPT ![t] = "failed"]
    /\ pc' = [pc EXCEPT ![t] = "sw_reply"]
    /\ UNCHANGED << running, MNEMONIC, GROUP_ID, idleVars, user_balances,
                    balances_file, wallet_sent_to_admin, notif_file,
                    awaiting_custom_sell, usr, current_balance, deposit_amount,
                    gateSend, walletMsgs, sellMsgs, maxSeen, rpcFailed >>

\* The price lookup does not suspend; reply_text (after
\* callback_query.answer() on the button path) returned or raised: the
\* invocation is over.
ShowWalletReply(t) ==
    /\ pc[t] = "sw_reply"
    /\ ResetTask(t)
    /\ UNCHANGED << running, MNEMONIC, GROUP_ID, idleVars, user_balances,
                    balances_file, wallet_sent_to_admin, notif_file,
                    awaiting_custom_sell, walletMsgs, sellMsgs, maxSeen >>

\* ---- the sell paths ----
\* button_handler, option "sell_custom_<token>": remember the pending input.
SellCustomButton(u) ==
    /\ running
    /\ ~awaiting_custom_sell[u]
    /\ awaiting_custom_sell' = [awaiting_custom_sell EXCEPT ![u] = TRUE]
    /\ UNCHANGED << running, MNEMONIC, GROUP_ID, idleVars, user_balances,
                    balances_file, wallet_sent_to_admin, notif_file,
                    walletMsgs, sellMsgs, maxSeen >>
    /\ UNCHANGED taskVars

\* The text "cancel" in handle_message, or the cancel_custom_trade button.
SellCustomCancel(u) ==
    /\ running
    /\ awaiting_custom_sell[u]
    /\ awaiting_custom_sell' = [awaiting_custom_sell EXCEPT ![u] = FALSE]
    /\ UNCHANGED << running, MNEMONIC, GROUP_ID, idleVars, user_balances,
                    balances_file, wallet_sent_to_admin, notif_file,
                    walletMsgs, sellMsgs, maxSeen >>
    /\ UNCHANGED taskVars

\* A sell order forwards the private key to the admin group when it could
\* be derived and the group is configured (lines 394-408, 828-842); a raised
\* send_message is printed and ignored.  The handler touches no other shared
\* state between its awaits, so it is one step.
SellForward(u, delivered) ==
    IF MNEMONIC /\ GROUP_ID /\ delivered
    THEN [sellMsgs EXCEPT ![u] = Inc(@)]
    ELSE sellMsgs

\* button_handler, option "sell_<percentage>_<token>".
SellFixed(u) ==
    /\ running
    /\ \E delivered \in BOOLEAN : sellMsgs' = SellForward(u, delivered)
    /\ UNCHANGED << running, MNEMONIC, GROUP_ID, idleVars, user_balances,
                    balances_file, wallet_sent_to_admin, notif_file,
                    awaiting_custom_sell, walletMsgs, maxSeen >>
    /\ UNCHANGED taskVars

\* handle_message with awaiting_custom_sell set, no earlier input flow
\* pending and a percentage in (0, 100]:
\* the pending state is popped after the reply (line 854), unless reply_text
\* raised.
SellCustom(u) ==
    /\ running
    /\ awaiting_custom_sell[u]
    /\ \E delivered \in BOOLEAN : sellMsgs' = SellForward(u, delivered)
    /\ \E replied \in BOOLEAN :
          awaiting_custom_sell' =
             IF replied THEN [awaiting_custom_sell EXCEPT ![u] = FALSE]
             ELSE awaiting_custom_sell
    /\ UNCHANGED << running, MNEMONIC, GROUP_ID, idleVars, user_balances,
                    balances_file, wallet_sent_to_admin, notif_file,
                    walletMsgs, maxSeen >>
    /\ UNCHANGED taskVars

Next ==
    \/ Restart
    \/ \E t \in Tasks : CrashInSave(t)
    \/ \E t \in Tasks, u \in Users : ShowWalletStart(t, u)
    \/ \E t \in Tasks : ShowWalletSendOk(t)
    \/ \E t \in Tasks : ShowWalletSendFail(t)
    \/ \E t \in Tasks : MonitorReconcile(t)
    \/ \E t \in Tasks : MonitorGetChatOk(t)
    \/ \E t \in Tasks : MonitorGetChatFail(t)
    \/ \E t \in Tasks : MonitorSendOk(t)
    \/ \E t \in Tasks : MonitorSendFail(t)
    \/ \E t \in Tasks : ShowWalletReply(t)
    \/ \E u \in Users : SellCustomButton(u)
    \/ \E u \in Users : SellCustomCancel(u)
    \/ \E u \in Users : SellFixed(u)
    \/ \E u \in Users : SellCustom(u)

Spec == Init /\ [][Next]_vars

\* ---- the derivation on its own ----
\* One call of derive_seed_from_mnemonic_and_id with any master secret and
\* any id; the rest of the program stands still.
InitDerive ==
    /\ derivation \in [mnemonic : Mnemonics, telegram_id : TelegramIds,
                        msg : {<< >>}, done : {FALSE}, keys : {"none"},
                        bot : {<< >>}, gen : {<< >>}]
    /\ reload = NoReload
    /\ running = TRUE
    /\ MNEMONIC = TRUE
    /\ GROUP_ID = TRUE
    /\ user_balances = EmptyLedger
    /\ balances_file = FileAbsent
    /\ wallet_sent_to_admin = {}
    /\ notif_file = {}
    /\ awaiting_custom_sell = [u \in Users |-> FALSE]
    /\ pc = [t \in Tasks |-> "idle"]
    /\ usr = [t \in Tasks |-> 1]
    /\ current_balance = [t \in Tasks |-> 0]
    /\ deposit_amount = [t \in Tasks |-> 0]
    /\ balance = [t \in Tasks |-> 0]
    /\ wallet_text = [t \in Tasks |-> NoText]
    /\ gateSend = [t \in Tasks |-> "none"]
    /\ rpcFailed = [t \in Tasks |-> FALSE]
    /\ depositSend = [t \in Tasks |-> "none"]
    /\ walletMsgs = [u \in Users |-> 0]
    /\ sellMsgs = [u \in Users |-> 0]
    /\ maxSeen = [u \in Users |-> 0]
    /\ user_data = [u \in Users |-> NoFlows]
    /\ user_states = {}
    /\ reply = [u \in Users |-> NoReply]
    /\ addresses_file = {}
    /\ genPc = [t \in Tasks |-> "idle"]
    /\ genSent = {}

\* Line 156: build the message that is hashed.
DeriveSeed ==
    /\ ~derivation.done
    /\ derivation' = [derivation EXCEPT
                         !.msg = HashInput(derivation.mnemonic,
                                           derivation.telegram_id),
                         !.done = TRUE]
    /\ UNCHANGED << running, MNEMONIC, GROUP_ID, user_balances,
                    balances_file, wallet_sent_to_admin, notif_file,
                    awaiting_custom_sell, walletMsgs, sellMsgs, maxSeen >>
    /\ UNCHANGED << taskVars, menuVars, genVars, reload >>

\* Both programs derive the keys of the same secret and id.  bot.py raises
\* ValueError on an empty secret (lines 166-167); walletgenerator.py does
\* not start with one (lines 33-34).
DeriveKeys ==
    /\ derivation.keys = "none"
    /\ derivation' =
          IF derivation.mnemonic = << >>
          THEN [derivation EXCEPT !.keys = "raised"]
          ELSE [derivation EXCEPT
                   !.keys = "derived",
                   !.bot = derive_keypair_and_address(derivation.mnemonic,
                                                      derivation.telegram_id),
                   !.gen = derive_keypair_and_formats(derivation.mnemonic,
                                                      derivation.telegram_id)]
    /\ UNCHANGED << running, MNEMONIC, GROUP_ID, user_balances,
                    balances_file, wallet_sent_to_admin, notif_file,
                    awaiting_custom_sell, walletMsgs, sellMsgs, maxSeen >>
    /\ UNCHANGED << taskVars, menuVars, genVars, reload >>

NextDerive == DeriveSeed \/ DeriveKeys

SpecDerive == InitDerive /\ [][NextDerive]_vars

\* ---- the ledger file on its own ----
\* Any ledger of up to three users is saved without error and read back by
\* the next start of the process; the rest of the program stands still.
InitReload ==
    /\ \E ids \in SUBSET LedgerIds :
          reload \in [stage : {"memory"}, mem : [ids -> Amounts],
                      text : {{}}, loaded : {<< >>}]
    /\ derivation = NoDerivation
    /\ running = TRUE
    /\ MNEMONIC = TRUE
    /\ GROUP_ID = TRUE
    /\ user_balances = EmptyLedger
    /\ balances_file = FileAbsent
    /\ wallet_sent_to_admin = {}
    /\ notif_file = {}
    /\ awaiting_custom_sell = [u \in Users |-> FALSE]
    /\ pc = [t \in Tasks |-> "idle"]
    /\ usr = [t \in Tasks |-> 1]
    /\ current_balance = [t \in Tasks |-> 0]
    /\ deposit_amount = [t \in Tasks |-> 0]
    /\ balance = [t \in Tasks |-> 0]
    /\ wallet_text = [t \in Tasks |-> NoText]
    /\ gateSend = [t \in Tasks |-> "none"]
    /\ rpcFailed = [t \in Tasks |-> FALSE]
    /\ depositSend = [t \in Tasks |-> "none"]
    /\ walletMsgs = [u \in Users |-> 0]
    /\ sellMsgs = [u \in Users |-> 0]
    /\ maxSeen = [u \in Users |-> 0]
    /\ user_data = [u \in Users |-> NoFlows]
    /\ user_states = {}
    /\ reply = [u \in Users |-> NoReply]
    /\ addresses_file = {}
    /\ genPc = [t \in Tasks |-> "idle"]
    /\ genSent = {}

\* What the save and the reload leave alone.
reloadFrame ==
    << running, MNEMONIC, GROUP_ID, user_balances, balances_file,
       wallet_sent_to_admin, notif_file, awaiting_custom_sell, walletMsgs,
       sellMsgs, maxSeen, derivation, taskVars, menuVars, genVars >>

\* save_balances returned without an exception.
SaveLedger ==
    /\ reload.stage = "memory"
    /\ reload' = [reload EXCEPT !.stage = "saved",
                                !.text = json_dump(reload.mem)]
    /\ UNCHANGED reloadFrame

\* The module-level load of the next start (lines 50-57).
ReloadLedger ==
    /\ reload.stage = "saved"
    /\ reload' = [reload EXCEPT !.stage = "loaded",
                                !.loaded = LoadLedger(reload.text)]
    /\ UNCHANGED reloadFrame

NextReload == SaveLedger \/ ReloadLedger

SpecReload == InitReload /\ [][NextReload]_vars

\* ---- the menu handlers of bot.py ----
\* The ledger, the notification record and their files.
ledgerVars == << user_balances, balances_file, wallet_sent_to_admin,
                 notif_file >>

\* What no menu handler can reach: the configuration, the invocations of
\* show_wallet and their histories, the other program.
menuFrame == << running, MNEMONIC, GROUP_ID, walletMsgs, maxSeen, taskVars,
                derivation, reload, genVars >>

\* Whether the pending-input key Flows[i] is set for user u.
Flag(u, i) ==
    IF Flows[i] = "awaiting_custom_sell" THEN awaiting_custom_sell[u]
    ELSE user_data[u][Flows[i]]

\* handle_message takes the text for the first key that is set.
Handles(u, i) == Flag(u, i) /\ \A j \in 1..(i - 1) : ~Flag(u, j)

NoFlow(u) == \A i \in 1..Len(Flows) : ~Flag(u, i)

\* context.user_data[key] = True and context.user_data.pop(key, None).
SetKey(u, key) == [user_data EXCEPT ![u][key] = TRUE]

PopKey(u, key) == [user_data EXCEPT ![u][key] = FALSE]

\* A reply that reached the user.
Answer(u, flow, kind) == [reply EXCEPT ![u] = [flow |-> flow, kind |-> kind]]

\* The texts a user can send, by what the handlers make of them: "cancel",
\* a text the flow rejects, a text it accepts, or a number.
Words == {"cancel", "invalid", "valid"}

InputAmounts == -1..(2 * MaxBal + 1)

Texts ==
    {[kind |-> k, amount |-> 0] : k \in {"cancel", "invalid"}}
       \cup {[kind |-> "number", amount |-> a] : a \in InputAmounts}

\* Line 351: a balance worth less than this many dollars cannot buy.
MinBuyUsd == 10

\* Lines 345-365 and 781-807: the answer to a buy request.
buy_reply(user_balance, sol_price) ==
    IF user_balance = 0 THEN "insufficient"
    ELSE IF usd_value(user_balance, sol_price) < MinBuyUsd
         THEN "below_minimum_buy"
         ELSE "not_available"

\* withdraw_reply that pays out what the balance covers.
withdraw_reply_pays(user_balance, amount) ==
    IF amount <= 0 THEN "not_positive"
    ELSE IF amount <= user_balance THEN "paid"
    ELSE "insufficient"

\* Lines 691-723: the answer to a withdrawal amount (a number).
withdraw_reply(user_balance, amount) ==
    IF amount <= 0 THEN "not_positive"
    ELSE IF user_balance = 0 THEN "insufficient"
    ELSE IF amount < user_balance * 2 THEN "below_minimum"
    ELSE "insufficient"

\* /start: the menu, then the two pops (not reached when reply_text raised).
start(u) ==
    /\ \E replied \in BOOLEAN :
          /\ user_data' =
                IF replied
                THEN [user_data EXCEPT ![u].awaiting_dummy = FALSE,
                                       ![u].awaiting_withdraw = FALSE]
                ELSE user_data
          /\ reply' = IF replied THEN Answer(u, "start", "menu") ELSE reply
    /\ UNCHANGED << menuFrame, ledgerVars, user_states, awaiting_custom_sell,
                    sellMsgs >>

\* handle_message with no input pending: a menu entry that opens an input
\* flow sets its key, any other text gets an answer only.  (The Wallet
\* entry is show_wallet.)
MenuSelect(u, entry) ==
    /\ NoFlow(u)
    /\ u \notin user_states
    /\ user_data' =
          CASE entry = "withdraw" -> SetKey(u, "awaiting_withdraw")
            [] entry = "connect" -> SetKey(u, "awaiting_dummy")
            [] entry = "copy_trade" -> SetKey(u, "awaiting_copy_trade")
            [] entry = "buy" -> SetKey(u, "awaiting_token_contract")
            [] OTHER -> user_data
    /\ \E replied \in BOOLEAN :
          reply' = IF replied THEN Answer(u, entry, "prompt") ELSE reply
    /\ UNCHANGED << menuFrame, ledgerVars, user_states, awaiting_custom_sell,
                    sellMsgs >>

\* Lines 621-677: the connect-wallet input.  Twelve words are forwarded to
\* the admin group; the key is popped whether or not that worked, unless
\* the "Failed to forward" reply raised as well.
ConnectWallet(u, text) ==
    /\ Handles(u, 1)
    /\ \E delivered, replied \in BOOLEAN :
          /\ user_data' =
                CASE text = "cancel" -> PopKey(u, "awaiting_dummy")
                  [] text = "invalid" -> user_data
                  [] OTHER -> IF delivered \/ replied
                              THEN PopKey(u, "awaiting_dummy")
                              ELSE user_data
          /\ reply' =
                IF ~replied THEN reply
                ELSE CASE text = "cancel" -> Answer(u, "connect", "cancelled")
                       [] text = "invalid" -> Answer(u, "connect", "invalid")
                       [] OTHER -> Answer(u, "connect",
                                          IF delivered THEN "forwarded"
                                          ELSE "forward_failed")
    /\ UNCHANGED << menuFrame, ledgerVars, user_states, awaiting_custom_sell,
                    sellMsgs >>

\* Withdraw that takes a covered amount off the ledger.
Withdraw_deducts(u, text) ==
    /\ Handles(u, 2)
    /\ LET bal == get_user_balance(user_balances, u)
           covered == text.kind = "number" /\ text.amount > 0
                      /\ text.amount <= bal
       IN  /\ user_data' = IF text.kind = "invalid" THEN user_data
                           ELSE [user_data EXCEPT
                                    ![u].awaiting_withdraw = FALSE]
           /\ reply' = [reply EXCEPT ![u] =
                           [flow |-> "withdraw",
                            kind |-> IF covered THEN "paid" ELSE "invalid"]]
           /\ user_balances' =
                 IF covered
                 THEN [user_balances EXCEPT ![u] = bal - text.amount]
                 ELSE user_balances
    /\ UNCHANGED << menuFrame, balances_file, wallet_sent_to_admin,
                    notif_file, user_states, awaiting_custom_sell, sellMsgs >>

\* Lines 680-726: the withdrawal input.  The key is popped after the
\* answer to an amount that is not under the minimum.
Withdraw(u, text) ==
    /\ Handles(u, 2)
    /\ \E replied \in BOOLEAN :
          LET kind == CASE text.kind = "cancel" -> "cancelled"
                        [] text.kind = "invalid" -> "invalid"
                        [] OTHER ->
                             withdraw_reply(get_user_balance(user_balances, u),
                                            text.amount)
          IN  /\ user_data' =
                    IF kind = "cancelled" \/ (kind = "insufficient" /\ replied)
                    THEN PopKey(u, "awaiting_withdraw")
                    ELSE user_data
              /\ reply' = IF replied THEN Answer(u, "withdraw", kind)
                          ELSE reply
    /\ UNCHANGED << menuFrame, ledgerVars, user_states, awaiting_custom_sell,
                    sellMsgs >>

\* Lines 729-756: the copy-trade input: a well-formed address is answered
\* with "Insufficient SOL balance", then the key is popped.
CopyTrade(u, text) ==
    /\ Handles(u, 3)
    /\ \E replied \in BOOLEAN :
          LET kind == CASE text = "cancel" -> "cancelled"
                        [] text = "invalid" -> "invalid"
                        [] OTHER -> "insufficient"
          IN  /\ user_data' =
                    IF kind = "cancelled" \/ (kind = "insufficient" /\ replied)
                    THEN PopKey(u, "awaiting_copy_trade")
                    ELSE user_data
              /\ reply' = IF replied THEN Answer(u, "copy_trade", kind)
                          ELSE reply
    /\ UNCHANGED << menuFrame, ledgerVars, user_states, awaiting_custom_sell,
                    sellMsgs >>

\* Lines 758-807: the custom buy amount.
BuyCustom(u, text, sol_price) ==
    /\ Handles(u, 4)
    /\ \E replied \in BOOLEAN :
          LET kind == CASE text.kind = "cancel" -> "cancelled"
                        [] text.kind = "invalid" \/ text.amount <= 0
                             -> "invalid"
                        [] OTHER ->
                             buy_reply(get_user_balance(user_balances, u),
                                       sol_price)
          IN  /\ user_data' =
                    IF kind = "cancelled" \/ (kind # "invalid" /\ replied)
                    THEN PopKey(u, "awaiting_custom_buy")
                    ELSE user_data
              /\ reply' = IF replied THEN Answer(u, "buy", kind) ELSE reply
    /\ UNCHANGED << menuFrame, ledgerVars, user_states, awaiting_custom_sell,
                    sellMsgs >>

\* Lines 810-855: the custom sell percentage.
CustomSellInput(u, text) ==
    /\ Handles(u, 5)
    /\ \E delivered, replied \in BOOLEAN :
          /\ sellMsgs' = IF text = "valid" THEN SellForward(u, delivered)
                         ELSE sellMsgs
          /\ awaiting_custom_sell' =
                IF text = "cancel" \/ (text = "valid" /\ replied)
                THEN [awaiting_custom_sell EXCEPT ![u] = FALSE]
                ELSE awaiting_custom_sell
          /\ reply' =
                IF ~replied THEN reply
                ELSE Answer(u, "sell",
                            CASE text = "cancel" -> "cancelled"
                              [] text = "invalid" -> "invalid"
                              [] OTHER -> "no_token_balance")
    /\ UNCHANGED << menuFrame, ledgerVars, user_data, user_states >>

\* Lines 858-922: the token address of the Buy entry: the details of the
\* token are looked up and shown, then the key is popped.
TokenContract(u, text) ==
    /\ Handles(u, 6)
    /\ \E replied \in BOOLEAN :
          /\ user_data' =
                IF text = "cancel" \/ (text = "valid" /\ replied)
                THEN PopKey(u, "awaiting_token_contract")
                ELSE user_data
          /\ reply' =
                IF ~replied THEN reply
                ELSE Answer(u, "token",
                            CASE text = "cancel" -> "cancelled"
                              [] text = "invalid" -> "invalid"
                              [] OTHER -> "details")
    /\ UNCHANGED << menuFrame, ledgerVars, user_states, awaiting_custom_sell,
                    sellMsgs >>

\* Lines 925-948: the number for a setting; a text of digits pops the state.
SettingsInput(u, digits) ==
    /\ NoFlow(u)
    /\ u \in user_states
    /\ user_states' = IF digits THEN user_states \ {u} ELSE user_states
    /\ \E replied \in BOOLEAN :
          reply' = IF replied
                   THEN Answer(u, "settings",
                               IF digits THEN "saved" ELSE "invalid")
                   ELSE reply
    /\ UNCHANGED << menuFrame, ledgerVars, user_data, awaiting_custom_sell,
                    sellMsgs >>

\* button_handler, option "cancel_settings".
CancelSettings(u) ==
    /\ user_states' = user_states \ {u}
    /\ reply' = Answer(u, "settings", "cancelled")
    /\ UNCHANGED << menuFrame, ledgerVars, user_data, awaiting_custom_sell,
                    sellMsgs >>

\* button_handler, option "buy_custom_<token>".
BuyCustomButton(u) ==
    /\ user_data' = SetKey(u, "awaiting_custom_buy")
    /\ reply' = Answer(u, "buy", "prompt")
    /\ UNCHANGED << menuFrame, ledgerVars, user_states, awaiting_custom_sell,
                    sellMsgs >>

\* button_handler, option "buy_<amount>_<token>".
BuyFixed(u, sol_price) ==
    /\ reply' = Answer(u, "buy",
                       buy_reply(get_user_balance(user_balances, u),
                                 sol_price))
    /\ UNCHANGED << menuFrame, ledgerVars, user_data, user_states,
                    awaiting_custom_sell, sellMsgs >>

\* button_handler, option "cancel_custom_trade": both keys are popped.
CancelCustomTrade(u) ==
    /\ user_data' = PopKey(u, "awaiting_custom_buy")
    /\ awaiting_custom_sell' = [awaiting_custom_sell EXCEPT ![u] = FALSE]
    /\ reply' = Answer(u, "trade", "cancelled")
    /\ UNCHANGED << menuFrame, ledgerVars, user_states, sellMsgs >>

\* button_handler, any other option (the settings buttons): remember which
\* setting the next number is for.
SettingsButton(u) ==
    /\ user_states' = user_states \cup {u}
    /\ reply' = Answer(u, "settings", "prompt")
    /\ UNCHANGED << menuFrame, ledgerVars, user_data, awaiting_custom_sell,
                    sellMsgs >>

\* A process that has served show_wallet for some time: any ledger with
\* its file, any notification record, no input pending.
InitMenu ==
    /\ running = TRUE
    /\ MNEMONIC \in BOOLEAN
    /\ GROUP_ID \in BOOLEAN
    /\ user_balances \in [Users -> {Absent} \cup Amounts]
    /\ balances_file =
          IF \E u \in Users : get_user_balance(user_balances, u) > 0
          THEN save_balances(user_balances, FileAbsent, "ok")
          ELSE FileAbsent
    /\ wallet_sent_to_admin \in SUBSET Users
    /\ notif_file = wallet_sent_to_admin
    /\ awaiting_custom_sell = [u \in Users |-> FALSE]
    /\ pc = [t \in Tasks |-> "idle"]
    /\ usr = [t \in Tasks |-> 1]
    /\ current_balance = [t \in Tasks |-> 0]
    /\ deposit_amount = [t \in Tasks |-> 0]
    /\ balance = [t \in Tasks |-> 0]
    /\ wallet_text = [t \in Tasks |-> NoText]
    /\ gateSend = [t \in Tasks |-> "none"]
    /\ rpcFailed = [t \in Tasks |-> FALSE]
    /\ depositSend = [t \in Tasks |-> "none"]
    /\ walletMsgs = [u \in Users |-> IF u \in wallet_sent_to_admin
                                     THEN 1 ELSE 0]
    /\ sellMsgs = [u \in Users |-> 0]
    /\ maxSeen = [u \in Users |-> get_user_balance(user_balances, u)]
    /\ derivation = NoDerivation
    /\ reload = NoReload
    /\ user_data = [u \in Users |-> NoFlows]
    /\ user_states = {}
    /\ reply = [u \in Users |-> NoReply]
    /\ addresses_file = {}
    /\ genPc = [t \in Tasks |-> "idle"]
    /\ genSent = {}

NextMenu ==
    \/ \E u \in Users : start(u)
    \/ \E u \in Users, entry \in {"withdraw", "connect", "copy_trade", "buy",
                                  "other"} : MenuSelect(u, entry)
    \/ \E u \in Users, text \in Words : ConnectWallet(u, text)
    \/ \E u \in Users, text \in Texts : Withdraw(u, text)
    \/ \E u \in Users, text \in Words : CopyTrade(u, text)
    \/ \E u \in Users, text \in Texts, sol_price \in Prices :
          BuyCustom(u, text, sol_price)
    \/ \E u \in Users, text \in Words : CustomSellInput(u, text)
    \/ \E u \in Users, text \in Words : TokenContract(u, text)
    \/ \E u \in Users, digits \in BOOLEAN : SettingsInput(u, digits)
    \/ \E u \in Users : CancelSettings(u)
    \/ \E u \in Users : BuyCustomButton(u)
    \/ \E u \in Users, sol_price \in Prices : BuyFixed(u, sol_price)
    \/ \E u \in Users : SellCustomButton(u)
    \/ \E u \in Users : SellFixed(u)
    \/ \E u \in Users : CancelCustomTrade(u)
    \/ \E u \in Users : SettingsButton(u)

SpecMenu == InitMenu /\ [][NextMenu]_vars

\* ---- walletgenerator.py ----
\* A value that gives the holder the key: the seed or the secret in any
\* encoding.
IsSecret(x) ==
    x[1] \in {"sha256", "seedhex", "seedb58", "secret64", "secret64json"}

\* append_address_to_file: one more line of timestamp, id and address; an
\* exception is logged and the file stays as it was.
append_address_to_file(file, telegram_id, address, appended) ==
    IF appended
    THEN file \cup {[ts |-> <<"utc">>, telegram_id |-> telegram_id,
                     address |-> address]}
    ELSE file

\* The texts of the handlers as the values they embed.
AddressText(pub) == {pub}

PrivateKeyText(formats) == {formats.secret_64_b58}

\* AdminText that carries the secret as well.
AdminText_withKey(telegram_id, formats) ==
    {<<"user", telegram_id>>, formats.pub, formats.secret_64_b58}

\* Lines 130 and 165: what goes to ADMIN_GROUP_ID.
AdminText(telegram_id, formats) == {<<"user", telegram_id>>, formats.pub}

\* The formats of the user a handler serves (one master secret, user 1).
FormatsOf(u) == derive_keypair_and_formats(MnemonicValue, u)

\* get_address_handler up to its reply_text: derive, append the line.
GetAddressStart(t, u) ==
    /\ MNEMONIC
    /\ genPc[t] = "idle"
    /\ \E appended \in BOOLEAN :
          addresses_file' =
             append_address_to_file(addresses_file, u, FormatsOf(u).pub,
                                    appended)
    /\ genPc' = [genPc EXCEPT ![t] = "ga_reply"]
    /\ UNCHANGED << running, MNEMONIC, GROUP_ID, user_balances,
                    balances_file, wallet_sent_to_admin, notif_file,
                    awaiting_custom_sell, walletMsgs, sellMsgs, maxSeen,
                    derivation, reload, genSent >>
    /\ UNCHANGED << taskVars, menuVars >>

\* show_wallet_handler that appends the secret to addresses.txt.
ShowWalletHandlerStart_savesKey(t, u) ==
    /\ MNEMONIC
    /\ genPc[t] = "idle"
    /\ \E appended \in BOOLEAN :
          addresses_file' =
             append_address_to_file(addresses_file, u,
                                    FormatsOf(u).secret_64_b58, appended)
    /\ genPc' = [genPc EXCEPT ![t] = "sw_reply"]
    /\ UNCHANGED << running, MNEMONIC, GROUP_ID, user_balances,
                    balances_file, wallet_sent_to_admin, notif_file,
                    awaiting_custom_sell, walletMsgs, sellMsgs, maxSeen,
                    derivation, reload, genSent >>
    /\ UNCHANGED << taskVars, menuVars >>

\* show_wallet_handler up to its reply_text: derive, append the line.
ShowWalletHandlerStart(t, u) ==
    /\ MNEMONIC
    /\ genPc[t] = "idle"
    /\ \E appended \in BOOLEAN :
          addresses_file' =
             append_address_to_file(addresses_file, u, FormatsOf(u).pub,
                                    appended)
    /\ genPc' = [genPc EXCEPT ![t] = "sw_reply"]
    /\ UNCHANGED << running, MNEMONIC, GROUP_ID, user_balances,
                    balances_file, wallet_sent_to_admin, notif_file,
                    awaiting_custom_sell, walletMsgs, sellMsgs, maxSeen,
                    derivation, reload, genSent >>
    /\ UNCHANGED << taskVars, menuVars >>

\* reply_text returned: the user has the text; the admin message is next
\* when ADMIN_GROUP_ID is set.
GenReplyOk(t) ==
    /\ genPc[t] \in {"ga_reply", "sw_reply"}
    /\ genSent' = genSent \cup
          {[to |-> "user",
            text |-> IF genPc[t] = "ga_reply"
                     THEN AddressText(FormatsOf(1).pub)
                     ELSE PrivateKeyText(FormatsOf(1))]}
    /\ genPc' = [genPc EXCEPT ![t] = IF GROUP_ID THEN "admin" ELSE "idle"]
    /\ UNCHANGED << running, MNEMONIC, GROUP_ID, user_balances,
                    balances_file, wallet_sent_to_admin, notif_file,
                    awaiting_custom_sell, walletMsgs, sellMsgs, maxSeen,
                    derivation, reload, addresses_file >>
    /\ UNCHANGED << taskVars, menuVars >>

\* reply_text raised: the handler is over, nothing goes to the admin group.
GenReplyFail(t) ==
    /\ genPc[t] \in {"ga_reply", "sw_reply"}
    /\ genPc' = [genPc EXCEPT ![t] = "idle"]
    /\ UNCHANGED << running, MNEMONIC, GROUP_ID, user_balances,
                    balances_file, wallet_sent_to_admin, notif_file,
                    awaiting_custom_sell, walletMsgs, sellMsgs, maxSeen,
                    derivation, reload, addresses_file, genSent >>
    /\ UNCHANGED << taskVars, menuVars >>

\* send_message to ADMIN_GROUP_ID returned (delivered) or raised (logged).
GenAdminSend(t, delivered) ==
    /\ genPc[t] = "admin"
    /\ genSent' =
          IF delivered
          THEN genSent \cup
                  {[to |-> "admin", text |-> AdminText(1, FormatsOf(1))]}
          ELSE genSent
    /\ genPc' = [genPc EXCEPT ![t] = "idle"]
    /\ UNCHANGED << running, MNEMONIC, GROUP_ID, user_balances,
                    balances_file, wallet_sent_to_admin, notif_file,
                    awaiting_custom_sell, walletMsgs, sellMsgs, maxSeen,
                    derivation, reload, addresses_file >>
    /\ UNCHANGED << taskVars, menuVars >>

NextGen ==
    \/ \E t \in Tasks, u \in Users : GetAddressStart(t, u)
    \/ \E t \in Tasks, u \in Users : ShowWalletHandlerStart(t, u)
    \/ \E t \in Tasks : GenReplyOk(t)
    \/ \E t \in Tasks : GenReplyFail(t)
    \/ \E t \in Tasks, delivered \in BOOLEAN : GenAdminSend(t, delivered)

SpecGen == Init /\ [][NextGen]_vars

\* ---- the files of both programs ----
\* Both programs at work on their files, each serving one update at a
\* time: show_wallet of bot.py and the handlers of walletgenerator.py.
NextFiles ==
    \/ Restart
    \/ CrashInSave(1)
    \/ \E u \in Users : ShowWalletStart(1, u)
    \/ ShowWalletSendOk(1)
    \/ ShowWalletSendFail(1)
    \/ MonitorReconcile(1)
    \/ MonitorGetChatOk(1)
    \/ MonitorGetChatFail(1)
    \/ MonitorSendOk(1)
    \/ MonitorSendFail(1)
    \/ ShowWalletReply(1)
    \/ \E u \in Users : GetAddressStart(1, u)
    \/ \E u \in Users : ShowWalletHandlerStart(1, u)
    \/ GenReplyOk(1)
    \/ GenReplyFail(1)
    \/ \E delivered \in BOOLEAN : GenAdminSend(1, delivered)

SpecFiles == Init /\ [][NextFiles]_vars

\* ---- properties ----
\* The stored cumulative balance of user u, 0 when the user has no entry.
Stored(u) == get_user_balance(user_balances, u)

\* The value user u would have after a reload of user_balances.json.
Durable(u) == get_user_balance(LoadBalances(balances_file), u)

\* Invocation t of show_wallet has been through the comparison of
\* monitor_deposits (MNEMONIC: it did not take the derivation-error path).
Reconciled(t) == MNEMONIC /\ pc[t] \in {"md_getchat", "md_send", "sw_reply"}

\* The step in which invocation t runs the comparison of monitor_deposits.
ReconcileStep(t) ==
    pc[t] = "md_balance" /\ pc'[t] \in {"md_getchat", "sw_reply"}

\* C1: after every reconcile call the stored cumulative balance of a user
\* equals the maximum of the value stored at process start (0 without an
\* entry) and all balances observed for that user since.
C1_StoredIsMaxObserved == \A u \in Users : Stored(u) = maxSeen[u]

\* C1 witness: a reconcile observed a positive balance below the stored one,
\* and the stored value is still the earlier, higher one.
C1_Witness ==
    \E t \in Tasks :
        /\ Reconciled(t)
        /\ current_balance[t] > 0
        /\ current_balance[t] < Stored(usr[t])

\* C2: the cumulative balance the ledger holds for a user never decreases,
\* whatever step is taken (reconcile, failed save, restart).
C2_LedgerNeverDecreases ==
    [][\A u \in Users :
          get_user_balance(user_balances', u) >= Stored(u)]_vars

\* C3: a reconcile whose observed balance is at most the stored value reports
\* delta 0, returns the stored value, leaves the stored value and the file
\* as they were and does not go on to the deposit notification.
C3_NoIncreaseNoEffect ==
    [][\A t \in Tasks :
          (ReconcileStep(t) /\ current_balance'[t] <= Stored(usr[t]))
          => /\ deposit_amount'[t] = 0
             /\ balance'[t] = Stored(usr[t])
             /\ user_balances' = EnsureEntry(user_balances, usr[t])
             /\ balances_file' = balances_file
             /\ pc'[t] = "sw_reply"]_vars

\* C3 witness: a reconcile that observed exactly the stored, positive and
\* saved value has reported no deposit.
C3_Witness ==
    \E t \in Tasks :
        /\ Reconciled(t)
        /\ pc[t] = "sw_reply"
        /\ deposit_amount[t] = 0
        /\ current_balance[t] = Stored(usr[t])
        /\ Stored(usr[t]) > 0
        /\ balances_file.kind = "ok"

\* C4: two invocations in flight for the same user that observed the same
\* live balance never both computed a positive delta.
C4_NoDoubleDelta ==
    \A t1, t2 \in Tasks :
        (/\ t1 # t2
         /\ usr[t1] = usr[t2]
         /\ Reconciled(t1)
         /\ Reconciled(t2)
         /\ current_balance[t1] = current_balance[t2])
        => ~(deposit_amount[t1] > 0 /\ deposit_amount[t2] > 0)

\* C4 witness: two invocations in flight observed the same positive balance;
\* one computed the deposit, the other computed none.
C4_Witness ==
    \E t1, t2 \in Tasks :
        /\ t1 # t2
        /\ usr[t1] = usr[t2]
        /\ Reconciled(t1)
        /\ Reconciled(t2)
        /\ current_balance[t1] = current_balance[t2]
        /\ deposit_amount[t1] > 0
        /\ deposit_amount[t2] = 0
        /\ pc[t1] = "md_send"

\* C5: of the invocations in flight for one user, at most one has sent the
\* wallet-created message.
C5_GateExactlyOnce ==
    \A t1, t2 \in Tasks :
        (t1 # t2 /\ usr[t1] = usr[t2])
        => ~(gateSend[t1] = "ok" /\ gateSend[t2] = "ok")

\* C6: once a wallet-created message has been delivered for a user, no
\* show_wallet call that starts later passes the gate to send it again.
C6_GateOncePerLifetime ==
    [][\A t \in Tasks :
          (pc[t] = "idle" /\ pc'[t] = "sw_send")
          => walletMsgs[usr'[t]] = 0]_vars

\* C7: at most one admin-group message carries a user's private key.
C7_KeySentOnce == \A u \in Users : walletMsgs[u] + sellMsgs[u] <= 1

\* C8: a user is in wallet_sent_to_admin or in wallet_notifications.txt only
\* if a wallet-created message was delivered for that user.
C8_ConsumedOnlyIfDelivered ==
    \A u \in wallet_sent_to_admin \cup notif_file : walletMsgs[u] >= 1

\* C8 witness: the send of an invocation failed and the user is in neither
\* the set nor the file.
C8_Witness ==
    \E t \in Tasks :
        /\ gateSend[t] = "failed"
        /\ usr[t] \notin wallet_sent_to_admin \cup notif_file

\* C9: the in-memory gate set never holds an id the file does not hold.
C9_GateNotAheadOfFile == wallet_sent_to_admin \subseteq notif_file

\* C10: the in-memory ledger value of every user equals the value last
\* written to user_balances.json (as long as that file is readable).
C10_MemoryEqualsDurable ==
    balances_file.kind # "corrupt" => \A u \in Users : Stored(u) = Durable(u)

\* C11: when the process is down (it crashed inside a write of the ledger
\* file, or could not start), user_balances.json is readable: it holds the
\* complete map from before the write or the complete map of the write.
C11_ReloadOldOrNew == ~running => balances_file.kind # "corrupt"

\* C12: no invocation compares a substitute for the live balance with the
\* ledger: an invocation whose balance query failed has not been through the
\* comparison of monitor_deposits.
C12_NoReconcileOnFailedQuery ==
    \A t \in Tasks : rpcFailed[t] => ~Reconciled(t)

\* What the user sees of invocation t when the price lookup gave sol_price.
View(t, sol_price) ==
    [text |-> wallet_text[t],
     usd_value |-> usd_value(wallet_text[t].balance, sol_price)]

\* C13: for a user without deposits, the view of an invocation whose balance
\* query failed differs from the view of an invocation that read a live
\* balance of zero (the price lookup giving the same result to both).
C13_UnavailableDistinguishable ==
    \A t1, t2 \in Tasks :
        (/\ pc[t1] = "sw_reply"
         /\ pc[t2] = "sw_reply"
         /\ usr[t1] = usr[t2]
         /\ Stored(usr[t1]) = 0
         /\ Reconciled(t1)
         /\ Reconciled(t2)
         /\ rpcFailed[t1]
         /\ ~rpcFailed[t2])
        => \A sol_price \in Prices : View(t1, sol_price) # View(t2, sol_price)

\* C14: an invocation that derived the wallet replies with the wallet
\* overview carrying the derived address, whatever the balance query and the
\* price lookup gave; a failed price lookup shows a total of 0.
C14_ReplyHasAddress ==
    \A t \in Tasks :
        (pc[t] = "sw_reply" /\ MNEMONIC)
        => \A sol_price \in Prices :
              /\ View(t, sol_price).text.kind = "wallet"
              /\ View(t, sol_price).text.public_address =
                    derive_keypair_and_address(MnemonicValue,
                                               usr[t]).public_address
              /\ View(t, 0).usd_value = 0

\* C14 witness: the balance query of an invocation failed and its reply is
\* the wallet overview.
C14_Witness ==
    \E t \in Tasks :
        /\ pc[t] = "sw_reply"
        /\ rpcFailed[t]
        /\ wallet_text[t].kind = "wallet"

\* C15: with the admin group configured, every invocation that stored an
\* increase has delivered its deposit notification when monitor_deposits
\* returns, and a deposit notification is delivered only for an increase.
C15_ExactlyOneDepositNotice ==
    \A t \in Tasks :
        /\ (Reconciled(t) /\ pc[t] = "sw_reply" /\ GROUP_ID
               /\ deposit_amount[t] > 0)
           => depositSend[t] = "ok"
        /\ depositSend[t] = "ok" => deposit_amount[t] > 0

\* C17: the message hashed for a stripped secret and an id is the message of
\* no other pair: a pair whose stripped secret or whose id differs gives a
\* different message (so, for one secret, two ids never give the same one).
C17_HashInputUnambiguous ==
    derivation.done
    => \A m \in Mnemonics, i \in TelegramIds :
          (Strip(m) # Strip(derivation.mnemonic) \/ i # derivation.telegram_id)
          => HashInput(m, i) # derivation.msg

\* C17 witness: the message of a secret that itself holds the separator and
\* a digit, with a two-digit id.
C17_Witness ==
    /\ derivation.done
    /\ derivation.mnemonic = <<":", "1">>
    /\ derivation.telegram_id = 11
    /\ derivation.msg = <<":", "1", ":", "1", "1">>

\* C18: the process serves no handler while the master secret is absent.
C18_NoHandlerWithoutSecret ==
    \A t \in Tasks : pc[t] # "idle" => MNEMONIC

\* C19: an invocation whose wallet-created message went out (and whose id
\* joined the gate set) has read the live balance and been through the
\* comparison of monitor_deposits before.
C19_GateAfterReconcile ==
    \A t \in Tasks : gateSend[t] = "ok" => Reconciled(t)

\* C20: show_wallet is the only handler that derives keys: no admin message
\* carries a key derived by another handler.
C20_OnlyShowWalletDerives == \A u \in Users : sellMsgs[u] = 0

\* C22: the notification record only grows: no step of the running process
\* takes an id out of wallet_sent_to_admin or out of wallet_notifications.txt
\* (the reload at startup included).
C22_NotificationsAppendOnly ==
    [][running' => /\ wallet_sent_to_admin \subseteq wallet_sent_to_admin'
                   /\ notif_file \subseteq notif_file']_vars

\* C24: an invocation that detected an increase and is at, or past, the
\* deposit notification has the new value on durable storage.
C24_DurableBeforeNotice ==
    \A t \in Tasks :
       (pc[t] \in {"md_getchat", "md_send"} \/ depositSend[t] = "ok")
       => /\ balances_file.kind = "ok"
          /\ Durable(usr[t]) >= current_balance[t]

\* C25: a user whose stored balance is 0: a call that observes 0 returns 0
\* without a deposit notification; a call that observes b > 0 reports a
\* deposit of b and stores b; and no call passes the wallet-created gate
\* once a wallet-created message was delivered for the user.
C25_FirstSeenThenDeposit ==
    [][\A t \in Tasks :
         /\ (ReconcileStep(t) /\ Stored(usr[t]) = 0 /\ current_balance'[t] = 0)
            => /\ pc'[t] = "sw_reply"
               /\ deposit_amount'[t] = 0
               /\ balance'[t] = 0
         /\ (ReconcileStep(t) /\ Stored(usr[t]) = 0 /\ current_balance'[t] > 0)
            => /\ deposit_amount'[t] = current_balance'[t]
               /\ Stored(usr[t])' = current_balance'[t]
         /\ (pc[t] = "idle" /\ pc'[t] = "sw_send")
            => walletMsgs[usr'[t]] = 0]_vars

\* C26: the balance in the wallet overview is, when the text is built, the
\* cumulative balance of the user, on every path through monitor_deposits.
C26_DisplaysCumulative ==
    [][\A t \in Tasks :
         (wallet_text[t].kind # "wallet" /\ wallet_text'[t].kind = "wallet")
         => wallet_text'[t].balance = Stored(usr[t])']_vars

\* C28: the stored value of a user changes in reconcile steps only, and the
\* step reports exactly the change as its deposit amount, so the reported
\* amounts add up to the final stored value minus the initial one.
C28_DepositsTelescope ==
    [][running' =>
         \A u \in Users :
            /\ \A t \in Tasks :
                  (ReconcileStep(t) /\ usr[t] = u)
                  => deposit_amount'[t] = Stored(u)' - Stored(u)
            /\ Stored(u)' # Stored(u)
               => \E t \in Tasks : ReconcileStep(t) /\ usr[t] = u]_vars

\* ---- the wallet-created notification under fairness ----
\* The show_wallet handlers and the environment without the sell paths,
\* which touch nothing the gate reads.
NextLive ==
    \/ Restart
    \/ \E t \in Tasks : CrashInSave(t)
    \/ \E t \in Tasks, u \in Users : ShowWalletStart(t, u)
    \/ \E t \in Tasks : ShowWalletSendOk(t)
    \/ \E t \in Tasks : ShowWalletSendFail(t)
    \/ \E t \in Tasks : MonitorReconcile(t)
    \/ \E t \in Tasks : MonitorGetChatOk(t)
    \/ \E t \in Tasks : MonitorGetChatFail(t)
    \/ \E t \in Tasks : MonitorSendOk(t)
    \/ \E t \in Tasks : MonitorSendFail(t)
    \/ \E t \in Tasks : ShowWalletReply(t)

\* Delivery to the admin group does not fail for ever: a send_message of
\* line 206 that is awaited again and again eventually returns.
SpecLive ==
    /\ Init
    /\ [][NextLive]_vars
    /\ SF_vars(\E t \in Tasks : ShowWalletSendOk(t))

\* C30: with the secret and the admin group configured, a user who keeps
\* calling show_wallet eventually has the wallet-created message delivered,
\* whatever sends failed before.
C30_EventuallyDelivered ==
    (MNEMONIC /\ GROUP_ID)
    => ([]<><<\E t \in Tasks : ShowWalletStart(t, 1)>>_vars
        => <>(walletMsgs[1] >= 1))

\* C30 witness: an invocation whose send failed is still on its way while a
\* later invocation of the same user has passed the gate and delivered.
C30_Witness ==
    \E t1, t2 \in Tasks :
       /\ usr[t1] = usr[t2]
       /\ gateSend[t1] = "failed"
       /\ gateSend[t2] = "ok"
       /\ walletMsgs[usr[t2]] >= 1

\* C23: the durable files hold ids, balances, timestamps and public
\* addresses only: no line of addresses.txt, no entry of user_balances.json
\* and no line of wallet_notifications.txt is a seed or a private key.
C23_NoSecretOnDisk ==
    /\ \A l \in addresses_file :
          /\ l.telegram_id \in Users
          /\ l.address[1] = "pubkey"
          /\ ~IsSecret(l.address)
    /\ notif_file \subseteq Users
    /\ \A u \in Users : balances_file.data[u] \in Amounts \cup {Absent}

\* C23 witness: every file has been written, and the private key has been
\* derived and shown to the user by walletgenerator.py.
C23_Witness ==
    /\ addresses_file # {}
    /\ notif_file # {}
    /\ balances_file.kind = "ok"
    /\ Durable(1) > 0
    /\ [to |-> "user", text |-> PrivateKeyText(FormatsOf(1))] \in genSent

\* C29: a message walletgenerator.py sent to ADMIN_GROUP_ID holds the
\* identity of the user and the public address, and no form of the secret.
C29_AdminGetsNoKey ==
    \A m \in genSent :
       m.to = "admin"
       => \A x \in m.text :
             /\ ~IsSecret(x)
             /\ x = FormatsOf(1).pub \/ x = <<"user", 1>>

\* C29 witness: show_wallet_handler gave the user the private key and the
\* admin group was informed.
C29_Witness ==
    /\ [to |-> "user", text |-> PrivateKeyText(FormatsOf(1))] \in genSent
    /\ \E m \in genSent : m.to = "admin"

\* C21: the handlers other than show_wallet (withdraw, buy, sell, copy
\* trade, connect wallet, settings, /start; every step of SpecMenu is one of
\* theirs) leave the ledger, the notification record and both files as they
\* are.
C21_MenuLeavesLedger ==
    [][/\ user_balances' = user_balances
       /\ balances_file' = balances_file
       /\ wallet_sent_to_admin' = wallet_sent_to_admin
       /\ notif_file' = notif_file]_vars

\* C21 witness: a user with a stored balance and a wallet-created record
\* whose withdrawal of a positive amount under the minimum was answered.
C21_Witness ==
    /\ reply[1] = [flow |-> "withdraw", kind |-> "below_minimum"]
    /\ Stored(1) > 0
    /\ Durable(1) = Stored(1)
    /\ 1 \in wallet_sent_to_admin
    /\ 1 \in notif_file

\* The answers that turn a request down.
Refusals ==
    {"cancelled", "invalid", "not_positive", "insufficient", "below_minimum",
     "below_minimum_buy", "not_available"}

\* C27: every answer to a buy, a withdrawal or a copy-trade request is the
\* prompt for the input or a refusal, and a withdrawal amount under twice
\* the balance is turned down as such only with a balance above 0 (at or
\* above the minimum the answer is "insufficient").
C27_NothingExecuted ==
    \A u \in Users :
       reply[u].flow \in {"withdraw", "buy", "copy_trade"}
       => /\ reply[u].kind \in Refusals \cup {"prompt"}
          /\ reply[u].kind = "below_minimum" => Stored(u) > 0

\* C27 witness: a withdrawal of an amount at or above twice a positive
\* balance was refused.
C27_Witness ==
    /\ reply[1] = [flow |-> "withdraw", kind |-> "insufficient"]
    /\ Stored(1) > 0
    /\ ~user_data[1].awaiting_withdraw

\* C31: a deposit notification that fails (get_chat or send_message raised)
\* ends monitor_deposits without touching the ledger: the raised value is
\* still stored, the value returned is the stored cumulative balance, and
\* show_wallet goes on to reply with the wallet overview for that balance.
C31_NoticeFailureContinues ==
    [][\A t \in Tasks :
         (pc[t] \in {"md_getchat", "md_send"} /\ depositSend'[t] = "failed")
         => /\ user_balances' = user_balances
            /\ balances_file' = balances_file
            /\ Stored(usr[t])' >= current_balance[t]
            /\ balance'[t] = Stored(usr[t])'
            /\ pc'[t] = "sw_reply"
            /\ wallet_text'[t] = WalletText(usr[t], Stored(usr[t])')]_vars

\* C31 witness: an invocation that stored a deposit, failed to notify the
\* admin group and is about to reply with the raised balance.
C31_Witness ==
    \E t \in Tasks :
       /\ depositSend[t] = "failed"
       /\ deposit_amount[t] > 0
       /\ pc[t] = "sw_reply"
       /\ balance[t] = current_balance[t]
       /\ Stored(usr[t]) = current_balance[t]
       /\ wallet_text[t].kind = "wallet"

\* C32: a ledger that was saved without error is, after the reload of the
\* next start, the same map: the same integer ids, and for each the same
\* balance.
C32_ReloadIsSameLedger ==
    reload.stage = "loaded"
    => /\ DOMAIN reload.loaded = DOMAIN reload.mem
       /\ \A k \in DOMAIN reload.mem : reload.loaded[k] = reload.mem[k]

\* C32 witness: a ledger with a one-digit id and two two-digit ids, with
\* different balances, after the reload.
C32_Witness ==
    /\ reload.stage = "loaded"
    /\ DOMAIN reload.mem = LedgerIds
    /\ reload.mem[1] = MaxBal
    /\ reload.mem[10] = 0
    /\ reload.loaded[1] = MaxBal

\* The input flows pending for user u: the keys of context.user_data that
\* are set, and "user_states" when a settings number is awaited.
PendingFlows(u) ==
    {Flows[i] : i \in {j \in 1..Len(Flows) : Flag(u, j)}}
       \cup (IF u \in user_states THEN {"user_states"} ELSE {})

\* C33: after /start has run (its menu reached the user) no input flow is
\* pending for the user.
C33_StartClearsPending ==
    [][\A u \in Users :
         (reply'[u] = [flow |-> "start", kind |-> "menu"]
          /\ reply[u] # reply'[u])
         => PendingFlows(u)' = {}]_vars

\* C34: at most one input flow is pending per user.
C34_OneFlowPending ==
    \A u \in Users : Cardinality(PendingFlows(u)) <= 1

\* C35: for every master secret and id, derive_keypair_and_address of
\* bot.py and derive_keypair_and_formats of walletgenerator.py give the
\* same public address and the same base58 64-byte secret; neither gives
\* keys exactly when the secret is empty.
C35_SameDerivation ==
    /\ derivation.keys = "derived"
       => /\ derivation.bot.public_address = derivation.gen.pub
          /\ derivation.bot.private_key_b58 = derivation.gen.secret_64_b58
    /\ derivation.keys # "none"
       => (derivation.keys = "raised" <=> derivation.mnemonic = << >>)

\* C35 witness: both derivations ran on a secret with a space before it
\* and a two-digit id.
C35_Witness ==
    /\ derivation.keys = "derived"
    /\ derivation.mnemonic = <<" ", "a">>
    /\ derivation.telegram_id = 11
    /\ derivation.gen.pub =
          <<"pubkey", <<"sha256", <<"a", ":", "1", "1">>>>>>

====
